---- MODULE Spec2Model ----
(***************************************************************************)
(* Browser Tic-Tac-Toe (Qwik route component, routes/index.tsx).           *)
(*                                                                         *)
(* The component owns one session: state = {board, message, over,          *)
(* current}, the errorMsg signal and the audits.events list.  Its          *)
(* handlers handleCellClick and doReset are async: each runs its           *)
(* synchronous prefix when invoked and then suspends at `await             *)
(* logEvent(...)` and `await updateStatus()`.  logEvent and updateStatus   *)
(* are QRLs ($(...)), whose bodies run once the QRL is resolved, so other  *)
(* invocations may run their own prefixes in between.  Calls of the same   *)
(* QRL run their bodies in call order, which logQ (a FIFO) models.         *)
(*                                                                         *)
(* The rules engine (~/lib/game) is not part of the sources at hand; its   *)
(* functions are modelled from the specification's section 4.              *)
(*                                                                         *)
(* Nothing in handleCellClick's try block throws on the values modelled    *)
(* (applyMove is only called on a cell that isValidMove accepted), so the  *)
(* catch branch is not reached and has no action.  Event timestamps and    *)
(* the constant userId are left out of the events.                         *)
(***************************************************************************)
EXTENDS Integers, Sequences, FiniteSets

VARIABLES
    board,          \* state.board
    message,        \* state.message
    over,           \* state.over
    current,        \* state.current
    errorMsg,       \* errorMsg.value
    audits,         \* audits.events
    logQ,           \* logEvent calls whose body has not run yet, in call order
    pendingStatus,  \* handleCellClick invocations suspended before updateStatus's body
    pendingClear    \* handleCellClick invocations suspended before `errorMsg.value = null`

vars == <<board, message, over, current, errorMsg, audits, logQ,
          pendingStatus, pendingClear>>

(***************************************************************************)
(* Bounds of the model.                                                    *)
(***************************************************************************)
\* Handler invocations that may be suspended at an await at the same time.
MaxInFlight == 2
\* Events held by the audit list and the pending logEvent calls together.
MaxAudit == 1
\* How many integers below 0 and above LastIndex a click may carry.
Outside == 1

\* The last valid cell index (`index > 8`).
LastIndex == 8

(***************************************************************************)
(* Values.                                                                 *)
(***************************************************************************)
\* JavaScript null / undefined.
Null == "null"

Players == {"X", "O"}

Cells == 0..LastIndex

\* A click's index argument: a number, whole + 1/2 when half.
Num(w) == [whole |-> w, half |-> FALSE]

\* The index arguments the model draws clicks from: the integers from
\* -Outside to LastIndex + Outside, and one non-integer inside the range.
Inputs == {Num(w) : w \in (0 - Outside)..(LastIndex + Outside)}
            \cup {[whole |-> 4, half |-> TRUE]}

(***************************************************************************)
(* Rules engine (~/lib/game), from the specification.                      *)
(***************************************************************************)
createEmptyBoard == [c \in Cells |-> Null]

resetGame == createEmptyBoard

\* The 8 winning lines, in the order the specification lists them.
WinLines == << <<0,1,2>>, <<3,4,5>>, <<6,7,8>>,
               <<0,3,6>>, <<1,4,7>>, <<2,5,8>>,
               <<0,4,8>>, <<2,4,6>> >>

LineWon(b, l) == b[l[1]] # Null /\ b[l[1]] = b[l[2]] /\ b[l[2]] = b[l[3]]

IsFull(b) == \A c \in Cells : b[c] # Null

\* The first complete line in the order `lines`, or 0.
FirstWon(b, lines) ==
    IF \E k \in 1..Len(lines) : LineWon(b, lines[k])
    THEN CHOOSE k \in 1..Len(lines) :
            /\ LineWon(b, lines[k])
            /\ \A j \in 1..(k-1) : ~LineWon(b, lines[j])
    ELSE 0

WinnerIn(b, lines) ==
    LET k == FirstWon(b, lines)
    IN  IF k = 0 THEN Null ELSE b[lines[k][1]]

\* The draw flag set on every full board, completed line or not.
getWinnerFullIsDraw(b) ==
    LET w == WinnerIn(b, WinLines)
    IN  [winner |-> w, draw |-> IsFull(b)]

getWinner(b) ==
    LET w == WinnerIn(b, WinLines)
    IN  [winner |-> w, draw |-> (w = Null /\ IsFull(b))]

isDraw(b) == IsFull(b) /\ getWinner(b).winner = Null

IsInteger(n) == ~n.half

\* n < 0 and n > LastIndex for a number n = whole (+ 1/2).
BelowRange(n) == n.whole < 0
AboveRange(n) == n.whole > LastIndex \/ (n.whole = LastIndex /\ n.half)

\* The range test alone, without the look at the cell.
isValidMoveRangeOnly(b, n) ==
    /\ IsInteger(n)
    /\ ~BelowRange(n)
    /\ ~AboveRange(n)

isValidMove(b, n) ==
    /\ IsInteger(n)
    /\ ~BelowRange(n)
    /\ ~AboveRange(n)
    /\ b[n.whole] = Null

\* applyMove(b, i, p): `result` is the returned board, `input` the contents
\* of the argument array once the call has returned.
applyMove(b, i, p) ==
    [input |-> b, result |-> [b EXCEPT ![i] = p]]

Filled(b) == Cardinality({c \in Cells : b[c] # Null})

nextPlayer(b) == IF Filled(b) % 2 = 0 THEN "X" ELSE "O"

(***************************************************************************)
(* The route component (routes/index.tsx).                                 *)
(***************************************************************************)
\* b.slice() frozen: a new array with the same contents.  No code of the
\* component writes into an array in place, so boards are values here.
freezeBoard(b) == [c \in DOMAIN b |-> b[c]]

TurnMessage(p) == IF p = "X" THEN "Player X's turn" ELSE "Player O's turn"

WinMessage(p) == IF p = "X" THEN "Player X wins!" ELSE "Player O wins!"

DrawMessage == "It's a draw."

\* updateStatus with the `return` of the win branch lost: a won game falls
\* through to the draw test and on to the in-progress branch.
updateStatusNoReturn(b, cur) ==
    LET res == getWinner(b)
    IN  IF res.draw \/ isDraw(b)
        THEN [message |-> DrawMessage, over |-> TRUE, current |-> cur]
        ELSE [message |-> TurnMessage(nextPlayer(b)), over |-> FALSE,
              current |-> nextPlayer(b)]

\* updateStatus testing the full board before the winner.
updateStatusDrawFirst(b, cur) ==
    LET res == getWinner(b)
    IN  IF IsFull(b)
        THEN [message |-> DrawMessage, over |-> TRUE, current |-> cur]
        ELSE IF res.winner # Null
        THEN [message |-> WinMessage(res.winner), over |-> TRUE, current |-> cur]
        ELSE [message |-> TurnMessage(nextPlayer(b)), over |-> FALSE,
              current |-> nextPlayer(b)]

\* The turn passed to the other player instead of read off the board.
updateStatusToggles(b, cur) ==
    LET res == getWinner(b)
        nxt == IF cur = "X" THEN "O" ELSE "X"
    IN  IF res.winner # Null
        THEN [message |-> WinMessage(res.winner), over |-> TRUE, current |-> cur]
        ELSE IF res.draw \/ isDraw(b)
        THEN [message |-> DrawMessage, over |-> TRUE, current |-> cur]
        ELSE [message |-> TurnMessage(nxt), over |-> FALSE, current |-> nxt]

\* updateStatus's body on board b with state.current = cur: the values it
\* leaves in state.message, state.over and state.current.
updateStatus(b, cur) ==
    LET res == getWinner(b)
    IN  IF res.winner # Null
        THEN [message |-> WinMessage(res.winner), over |-> TRUE, current |-> cur]
        ELSE IF res.draw \/ isDraw(b)
        THEN [message |-> DrawMessage, over |-> TRUE, current |-> cur]
        ELSE [message |-> TurnMessage(nextPlayer(b)), over |-> FALSE,
              current |-> nextPlayer(b)]

\* handleCellClick without its `if (state.over)` guard.
VerdictNoOverCheck(b, ov, n) ==
    IF ~IsInteger(n) \/ BelowRange(n) \/ AboveRange(n) THEN "OutOfRangeIndex"
    ELSE IF ~isValidMove(b, n) THEN "CellOccupied"
    ELSE "Valid"

\* handleCellClick without its `if (!isValidMove(...))` guard.
VerdictNoOccupiedCheck(b, ov, n) ==
    IF ~IsInteger(n) \/ BelowRange(n) \/ AboveRange(n) THEN "OutOfRangeIndex"
    ELSE IF ov THEN "GameAlreadyOver"
    ELSE "Valid"

\* The three guards at the head of handleCellClick, in their order.
\* The game-over test made before the range test.
VerdictOverFirst(b, ov, n) ==
    IF ov THEN "GameAlreadyOver"
    ELSE IF ~IsInteger(n) \/ BelowRange(n) \/ AboveRange(n) THEN "OutOfRangeIndex"
    ELSE IF ~isValidMove(b, n) THEN "CellOccupied"
    ELSE "Valid"

Verdict(b, ov, n) ==
    IF ~IsInteger(n) \/ BelowRange(n) \/ AboveRange(n) THEN "OutOfRangeIndex"
    ELSE IF ov THEN "GameAlreadyOver"
    ELSE IF ~isValidMove(b, n) THEN "CellOccupied"
    ELSE "Valid"

\* The occupied-cell branch clearing the banner instead of setting it.
ErrorTextOccupiedCleared(v) ==
    CASE v = "OutOfRangeIndex" -> "Invalid position."
      [] v = "GameAlreadyOver" -> "Game is already over. Please restart."
      [] v = "CellOccupied"    -> Null

\* The banner text (errorMsg.value) of a rejection.
ErrorText(v) ==
    CASE v = "OutOfRangeIndex" -> "Invalid position."
      [] v = "GameAlreadyOver" -> "Game is already over. Please restart."
      [] v = "CellOccupied"    -> "Cell already occupied."

\* The meta.message of a rejection's audit event.
AuditText(v) ==
    CASE v = "OutOfRangeIndex" -> "Out of range index"
      [] v = "GameAlreadyOver" -> "Move after game over"
      [] v = "CellOccupied"    -> "Invalid move - occupied"

\* Audit events (timestamp and the constant userId left out).
ErrorEvent(v, n, b) ==
    [action |-> "ERROR", before |-> b, message |-> AuditText(v), index |-> n]

\* meta.player read after the turn has passed: the next player.
MoveEventNextPlayer(before, next, n, p) ==
    [action |-> "MOVE", before |-> before, after |-> next, index |-> n,
     player |-> IF p = "X" THEN "O" ELSE "X"]

MoveEvent(before, next, n, p) ==
    [action |-> "MOVE", before |-> before, after |-> next, index |-> n, player |-> p]

\* The `before` of a reset read once state.board has been replaced.
ResetEventLateBefore(before, after) ==
    [action |-> "RESET", before |-> after, after |-> after]

ResetEvent(before, after) ==
    [action |-> "RESET", before |-> before, after |-> after]

\* What logEvent pushes for ev: ev with its snapshots copied and frozen.
StoredEvent(ev) ==
    IF ev.action = "ERROR"
    THEN [ev EXCEPT !.before = freezeBoard(ev.before)]
    ELSE [ev EXCEPT !.before = freezeBoard(ev.before),
                    !.after = freezeBoard(ev.after)]

\* Invocations suspended at an await.
InFlight == Len(logQ) + pendingStatus + pendingClear

CanInvoke == InFlight < MaxInFlight /\ Len(audits) + Len(logQ) < MaxAudit

Init ==
    /\ board = createEmptyBoard
    /\ message = "Player X's turn"
    /\ over = FALSE
    /\ current = "X"
    /\ errorMsg = Null
    /\ audits = <<>>
    /\ logQ = <<>>
    /\ pendingStatus = 0
    /\ pendingClear = 0

\* The snapshot taken after the move instead of before it.
AcceptMoveLateSnapshot(b, i, p) ==
    LET next == applyMove(b, i, p).result
    IN  [before |-> freezeBoard(next), next |-> next, board |-> freezeBoard(next)]

\* The first three statements of an accepted move: the snapshot, the new
\* board and the value assigned to state.board.
AcceptMove(b, i, p) ==
    LET before == freezeBoard(b)
        next   == applyMove(b, i, p).result
    IN  [before |-> before, next |-> next, board |-> freezeBoard(next)]

\* An index of the board whose cell is empty.
InRangeEmpty(b, n) == isValidMove(b, n)

\* handleCellClick(n) up to its first await.
handleCellClick(n) ==
    /\ LET v == Verdict(board, over, n)
       IN  IF v # "Valid"
           THEN /\ errorMsg' = ErrorText(v)
                /\ logQ' = Append(logQ, ErrorEvent(v, n, board))
                /\ UNCHANGED <<board, message, over, current>>
           ELSE LET m == AcceptMove(board, n.whole, current)
                IN  /\ board' = m.board
                    /\ logQ' = Append(logQ, MoveEvent(m.before, m.next, n, current))
                    /\ UNCHANGED <<message, over, current, errorMsg>>
    /\ UNCHANGED <<audits, pendingStatus, pendingClear>>

\* An invocation of handleCellClick(n), within the bounds.
HandleCellClick(n) == CanInvoke /\ handleCellClick(n)

\* logEvent assigning a new one-element list instead of pushing.
LogEventReplaces ==
    /\ logQ # <<>>
    /\ audits' = <<StoredEvent(Head(logQ))>>
    /\ logQ' = Tail(logQ)
    /\ pendingStatus' = IF Head(logQ).action = "MOVE"
                        THEN pendingStatus + 1 ELSE pendingStatus
    /\ UNCHANGED <<board, message, over, current, errorMsg, pendingClear>>

\* The body of the oldest pending logEvent call; the invocation that awaits
\* it resumes: a move goes on to updateStatus, a rejection or reset returns.
LogEvent ==
    /\ logQ # <<>>
    /\ audits' = Append(audits, StoredEvent(Head(logQ)))
    /\ logQ' = Tail(logQ)
    /\ pendingStatus' = IF Head(logQ).action = "MOVE"
                        THEN pendingStatus + 1 ELSE pendingStatus
    /\ UNCHANGED <<board, message, over, current, errorMsg, pendingClear>>

\* `await updateStatus()` of a suspended handleCellClick.
UpdateStatus ==
    /\ pendingStatus > 0
    /\ LET s == updateStatus(board, current)
       IN  /\ message' = s.message
           /\ over' = s.over
           /\ current' = s.current
    /\ pendingStatus' = pendingStatus - 1
    /\ pendingClear' = pendingClear + 1
    /\ UNCHANGED <<board, errorMsg, audits, logQ>>

\* `errorMsg.value = null`, the last statement of an accepted move.
ClearError ==
    /\ pendingClear > 0
    /\ errorMsg' = Null
    /\ pendingClear' = pendingClear - 1
    /\ UNCHANGED <<board, message, over, current, audits, logQ, pendingStatus>>

\* doReset up to its await.
doReset ==
    /\ board' = freezeBoard(resetGame)
    /\ current' = "X"
    /\ over' = FALSE
    /\ message' = "Player X's turn"
    /\ errorMsg' = Null
    /\ logQ' = Append(logQ, ResetEvent(freezeBoard(board), board'))
    /\ UNCHANGED <<audits, pendingStatus, pendingClear>>

\* doReset without `state.current = "X"`.
DoResetKeepsCurrent ==
    /\ CanInvoke
    /\ board' = freezeBoard(resetGame)
    /\ over' = FALSE
    /\ message' = "Player X's turn"
    /\ errorMsg' = Null
    /\ logQ' = Append(logQ, ResetEvent(freezeBoard(board), board'))
    /\ UNCHANGED <<current, audits, pendingStatus, pendingClear>>

\* An invocation of doReset, within the bounds.
DoReset == CanInvoke /\ doReset

\* clearAudit taking the error banner down with the log.
ClearAuditClearsError ==
    /\ audits' = <<>>
    /\ errorMsg' = Null
    /\ UNCHANGED <<board, message, over, current, logQ,
                   pendingStatus, pendingClear>>

\* clearAudit: `audits.events.length = 0`.
ClearAudit ==
    /\ audits' = <<>>
    /\ UNCHANGED <<board, message, over, current, errorMsg, logQ,
                   pendingStatus, pendingClear>>

Next ==
    \/ \E n \in Inputs : HandleCellClick(n)
    \/ LogEvent
    \/ UpdateStatus
    \/ ClearError
    \/ DoReset
    \/ ClearAudit

Spec == Init /\ [][Next]_vars

\* The same program with every invocation started only once the one before
\* it has returned: the one-after-the-other executions.
NextSeq ==
    \/ (InFlight = 0 /\ \E n \in Inputs : HandleCellClick(n))
    \/ LogEvent
    \/ UpdateStatus
    \/ ClearError
    \/ (InFlight = 0 /\ DoReset)
    \/ ClearAudit

SpecSeq == Init /\ [][NextSeq]_vars

(***************************************************************************)
(* The same program with a longer audit log and clicks on fewer cells:     *)
(* up to MaxLog events logged or about to be, clicks on the cells          *)
(* 0..MaxClickCell and on one index past the board.                        *)
(***************************************************************************)
MaxLog == 3

MaxClickCell == 4

AuditInputs == {Num(w) : w \in 0..MaxClickCell} \cup {Num(LastIndex + Outside)}

CanInvokeAudit == InFlight < MaxInFlight /\ Len(audits) + Len(logQ) < MaxLog

NextAudit ==
    \/ (CanInvokeAudit /\ \E n \in AuditInputs : handleCellClick(n))
    \/ LogEvent
    \/ UpdateStatus
    \/ ClearError
    \/ (CanInvokeAudit /\ doReset)
    \/ ClearAudit

SpecAudit == Init /\ [][NextAudit]_vars

(***************************************************************************)
(* One game, without doReset, with the scheduling the runtime gives: a     *)
(* suspended invocation is resumed (weak fairness of logEvent's body, of   *)
(* updateStatus's body and of the statement after it), and clicks on       *)
(* empty cells keep being made while the game is in progress (strong       *)
(* fairness of ClickEmpty).  The log is emptied again and again, since a   *)
(* full log holds up the invocations of the model, not the program's.      *)
(***************************************************************************)
ClickEmpty ==
    /\ ~over
    /\ \E n \in Inputs : InRangeEmpty(board, n) /\ HandleCellClick(n)

NextLive ==
    \/ \E n \in Inputs : HandleCellClick(n)
    \/ LogEvent
    \/ UpdateStatus
    \/ ClearError
    \/ ClearAudit

SpecLive ==
    /\ Init /\ [][NextLive]_vars
    /\ WF_vars(LogEvent) /\ WF_vars(UpdateStatus) /\ WF_vars(ClearError)
    /\ WF_vars(ClearAudit)
    /\ SF_vars(ClickEmpty)

\* The same game with every invocation started only once the one before it
\* has returned.
NextLiveSeq ==
    \/ (InFlight = 0 /\ \E n \in Inputs : HandleCellClick(n))
    \/ LogEvent
    \/ UpdateStatus
    \/ ClearError
    \/ ClearAudit

ClickEmptySeq == InFlight = 0 /\ ClickEmpty

SpecLiveSeq ==
    /\ Init /\ [][NextLiveSeq]_vars
    /\ WF_vars(LogEvent) /\ WF_vars(UpdateStatus) /\ WF_vars(ClearError)
    /\ WF_vars(ClearAudit)
    /\ SF_vars(ClickEmptySeq)

(***************************************************************************)
(* The rules engine's functions on their own: a session found with any     *)
(* board whatever, any player to move and either value of the over flag,   *)
(* in which one handleCellClick is suspended before updateStatus.          *)
(* updateStatus applies getWinner and isDraw to the board, and one click   *)
(* applies isValidMove and applyMove to it.                                *)
(***************************************************************************)
AllBoards == [Cells -> Players \cup {Null}]

InitEngine ==
    /\ board \in AllBoards
    /\ current \in Players
    /\ over \in BOOLEAN
    /\ message = "Player X's turn"
    /\ errorMsg = Null
    /\ audits = <<>>
    /\ logQ = <<>>
    /\ pendingStatus = 1
    /\ pendingClear = 0

NextEngine ==
    \/ UpdateStatus
    \/ (logQ = <<>> /\ \E n \in Inputs : HandleCellClick(n))

SpecEngine == InitEngine /\ [][NextEngine]_vars

(***************************************************************************)
(* Vocabulary of the properties.                                           *)
(***************************************************************************)
Last(q) == q[Len(q)]

Count(b, p) == Cardinality({c \in Cells : b[c] = p})

HasLine(b, p) == \E k \in 1..Len(WinLines) : LineWon(b, WinLines[k]) /\ b[WinLines[k][1]] = p

Other(p) == IF p = "X" THEN "O" ELSE "X"

InRange(n) == IsInteger(n) /\ ~BelowRange(n) /\ ~AboveRange(n)

\* Steps, told by the logEvent call they make.
Invoked == Len(logQ') = Len(logQ) + 1

ResetStep == Invoked /\ Last(logQ').action = "RESET"

Accepted(n) == Invoked /\ Last(logQ').action = "MOVE" /\ Last(logQ').index = n

Rejected(n) == Invoked /\ Last(logQ').action = "ERROR" /\ Last(logQ').index = n

Reverse(q) == [k \in 1..Len(q) |-> q[Len(q) + 1 - k]]

\* Every event logged or about to be, oldest first.
AllEvents == audits \o logQ

\* What a run of whole, one-after-the-other invocations leaves behind.
SerialState ==
    /\ Count(board, "X") - Count(board, "O") \in {0, 1}
    /\ over <=> (getWinner(board).winner # Null \/ IsFull(board))
    /\ ~over => current = nextPlayer(board) /\ message = TurnMessage(current)
    /\ getWinner(board).winner # Null => message = WinMessage(getWinner(board).winner)

(***************************************************************************)
(* C1.  Once over is set, no handleCellClick changes board, current or     *)
(* over; the only step that leaves the terminal state is doReset, which    *)
(* returns to an empty board with X to move; a click on a cell of a game   *)
(* that is over is rejected as GameAlreadyOver.                            *)
(***************************************************************************)
C1_TerminalAbsorbing ==
    [][over =>
        /\ \A n \in Inputs : HandleCellClick(n) =>
              /\ board' = board /\ current' = current /\ over' = over
              /\ Rejected(n)
              /\ InRange(n) =>
                    /\ errorMsg' = "Game is already over. Please restart."
                    /\ Last(logQ') = [action |-> "ERROR", before |-> board,
                                      message |-> "Move after game over", index |-> n]
        /\ (board' # board \/ current' # current \/ over' # over) =>
              /\ ResetStep
              /\ board' = createEmptyBoard /\ current' = "X" /\ ~over'
              /\ message' = "Player X's turn"
    ]_vars

\* A click on an empty cell of a won game has just been rejected.
C1_Witness ==
    /\ over
    /\ getWinner(board).winner # Null
    /\ board[8] = Null
    /\ errorMsg = "Game is already over. Please restart."
    /\ logQ # <<>>
    /\ Last(logQ).action = "ERROR"
    /\ Last(logQ).index = Num(8)
    /\ Last(logQ).before = board

(***************************************************************************)
(* C2.  The k-th accepted move since the initial state or the last reset   *)
(* places X when k is odd and O when k is even.                            *)
(***************************************************************************)
C2_StrictAlternation ==
    [][\A n \in Inputs : Accepted(n) =>
          board'[n.whole] = (IF Filled(board') % 2 = 1 THEN "X" ELSE "O")
    ]_vars

(***************************************************************************)
(* C3.  Whatever the interleaving of the invocations' await points, once   *)
(* every invocation has returned the game state is one that a              *)
(* one-after-the-other execution of whole invocations leaves behind.       *)
(***************************************************************************)
C3_Serializable == InFlight = 0 => SerialState

(***************************************************************************)
(* C4.  The recomputation after an accepted move by p: Won iff the board   *)
(* has a completed line, Drawn iff it is full without one, and otherwise   *)
(* in progress with the turn passed to the other player.                   *)
(***************************************************************************)
C4_Recompute ==
    [][UpdateStatus =>
        LET w == getWinner(board).winner
        IN  /\ over' <=> (w # Null \/ IsFull(board))
            /\ w # Null => message' = WinMessage(w)
            /\ (w = Null /\ IsFull(board)) => message' = DrawMessage
            /\ (w = Null /\ ~IsFull(board)) =>
                  /\ current' = Other(current)
                  /\ message' = TurnMessage(current')
    ]_vars

(***************************************************************************)
(* C5.  A click that must be rejected (index outside the integers 0..8,    *)
(* game over, or cell occupied) leaves board, current and over alone,      *)
(* sets a non-empty banner and adds exactly one ERROR event and nothing    *)
(* else to the log; logEvent's body stores that event as it was passed.    *)
(* Index 9 is rejected as out of range.                                    *)
(***************************************************************************)
C5_RejectedClick ==
    [][/\ \A n \in Inputs :
            ((~InRange(n) \/ over \/ board[n.whole] # Null) /\ HandleCellClick(n)) =>
                /\ board' = board /\ current' = current /\ over' = over
                /\ errorMsg' \notin {Null, ""}
                /\ Len(AllEvents') = Len(AllEvents) + 1
                /\ SubSeq(AllEvents', 1, Len(AllEvents)) = AllEvents
                /\ Last(AllEvents').action = "ERROR"
                /\ Last(AllEvents').before = board
                /\ Last(AllEvents').index = n
                /\ n = Num(LastIndex + 1) =>
                      /\ errorMsg' = "Invalid position."
                      /\ Last(AllEvents').message = "Out of range index"
       /\ LogEvent => AllEvents' = AllEvents
    ]_vars

\* handleCellClick(9) has just been rejected on a board with a marker.
C5_Witness ==
    /\ errorMsg = "Invalid position."
    /\ logQ # <<>>
    /\ Last(logQ).action = "ERROR"
    /\ Last(logQ).index = Num(LastIndex + 1)
    /\ Last(logQ).before = board
    /\ Filled(board) > 0

(***************************************************************************)
(* C6.  The board always has exactly the 9 cells 0..8, and a cell holding  *)
(* a marker keeps it across every step that is not a doReset.              *)
(***************************************************************************)
C6_CellsPersist ==
    [][/\ DOMAIN board = Cells /\ DOMAIN board' = Cells
       /\ \A c \in Cells : board'[c] \in Players \cup {Null}
       /\ ~ResetStep => \A c \in Cells : board[c] # Null => board'[c] = board[c]
    ]_vars

\* A click on the occupied cell 0 has just been rejected, and both players'
\* markers are still where they were placed.
C6_Witness ==
    /\ board[0] = "X"
    /\ board[1] = "O"
    /\ errorMsg = "Cell already occupied."
    /\ logQ # <<>>
    /\ Last(logQ).action = "ERROR"
    /\ Last(logQ).index = Num(0)

(***************************************************************************)
(* C7.  X and O never both hold a completed line, so the winner found does *)
(* not depend on the order in which the lines are tried.                   *)
(***************************************************************************)
C7_SingleWinner ==
    /\ ~(HasLine(board, "X") /\ HasLine(board, "O"))
    /\ WinnerIn(board, WinLines) = WinnerIn(board, Reverse(WinLines))

\* Two different completed lines on the board: the two orders stop at
\* different lines.
C7_Witness ==
    /\ FirstWon(board, WinLines) # 0
    /\ WinLines[FirstWon(board, WinLines)]
          # Reverse(WinLines)[FirstWon(board, Reverse(WinLines))]

(***************************************************************************)
(* C8.  A recomputation on a full board with a completed line ends the     *)
(* game as Won; the draw message is only ever shown on a full board        *)
(* without a completed line.                                               *)
(***************************************************************************)
C8_WinBeforeDraw ==
    [][/\ (UpdateStatus /\ IsFull(board)) =>
            \A p \in Players : HasLine(board, p) =>
                over' /\ message' = WinMessage(p)
       /\ message' = DrawMessage =>
            /\ IsFull(board')
            /\ \A p \in Players : ~HasLine(board', p)
    ]_vars

\* The ninth marker completed a line and the game stands as won.
C8_Witness ==
    /\ IsFull(board)
    /\ HasLine(board, "X")
    /\ over
    /\ message = "Player X wins!"

(***************************************************************************)
(* C9.  applyMove leaves its argument as it was and returns it changed at  *)
(* the index only; the MOVE event of an accepted move carries the board    *)
(* from before the move as `before`, in the call and in the stored event.  *)
(***************************************************************************)
C9_ApplyMovePure ==
    [][/\ board' # board =>
            /\ \A i \in Cells, p \in Players : board[i] = Null =>
                  LET r == applyMove(board, i, p)
                  IN  /\ r.input = board
                      /\ r.result[i] = p
                      /\ \A c \in Cells \ {i} : r.result[c] = board[c]
            /\ \A n \in Inputs : HandleCellClick(n) =>
                  /\ Last(logQ').action = "MOVE"
                  /\ Last(logQ').before = board
                  /\ Last(logQ').after = board'
                  /\ board' = applyMove(board, n.whole, current).result
       /\ LogEvent => Last(audits') = Head(logQ)
    ]_vars

\* A move onto a board that already held markers has just been made.
C9_Witness ==
    /\ logQ # <<>>
    /\ Last(logQ).action = "MOVE"
    /\ Filled(Last(logQ).before) = 2
    /\ Last(logQ).after = board
    /\ Filled(board) = 3

(***************************************************************************)
(* C10.  doReset, from whatever state, leaves exactly the game state of a  *)
(* fresh session: empty board, X to move, not over, no error, the first    *)
(* status message.  What follows depends on these alone.                   *)
(***************************************************************************)
C10_ResetRoundTrip ==
    [][ResetStep =>
        /\ board' = createEmptyBoard
        /\ current' = "X"
        /\ over' = FALSE
        /\ errorMsg' = Null
        /\ message' = "Player X's turn"
        /\ Last(logQ').after = createEmptyBoard
        /\ Last(logQ').before = board
    ]_vars

\* A reset has just been made from a game O had won.
C10_Witness ==
    /\ logQ # <<>>
    /\ Last(logQ).action = "RESET"
    /\ HasLine(Last(logQ).before, "O")
    /\ board = createEmptyBoard
    /\ current = "X"

(***************************************************************************)
(* C11.  On every board on which at most one player holds a complete line  *)
(* (every board of play, by C7), getWinner returns winner = p and          *)
(* draw = false iff one of the 8 lines holds three p markers, winner =     *)
(* null and draw = true iff no line is complete and the 9 cells are        *)
(* filled, and winner = null and draw = false otherwise; on a board where  *)
(* both players hold a line it returns one of them and draw = false.  X    *)
(* at 0,1,2 with O at 4,7 gives {X, false}; X O X X O O O X X gives        *)
(* {null, true}.                                                           *)
(***************************************************************************)
RefLines == {{0,1,2}, {3,4,5}, {6,7,8}, {0,3,6}, {1,4,7}, {2,5,8}, {0,4,8}, {2,4,6}}

RefHolds(b, p) == \E l \in RefLines : \A c \in l : b[c] = p

RefFull(b) == \A c \in 0..8 : b[c] \in {"X", "O"}

ScenarioA ==
    [c \in 0..8 |-> IF c \in {0, 1, 2} THEN "X" ELSE IF c \in {4, 7} THEN "O" ELSE Null]

ScenarioB ==
    [c \in 0..8 |-> <<"X", "O", "X", "X", "O", "O", "O", "X", "X">>[c + 1]]

\* The three cases of the reference definition, for the result r on board b.
RefCases(b, r) ==
    /\ \A p \in {"X", "O"} : (r.winner = p /\ r.draw = FALSE) <=> RefHolds(b, p)
    /\ (r.winner = Null /\ r.draw = TRUE) <=>
          (~RefHolds(b, "X") /\ ~RefHolds(b, "O") /\ RefFull(b))
    /\ (r.winner = Null /\ r.draw = FALSE) <=>
          (~RefHolds(b, "X") /\ ~RefHolds(b, "O") /\ ~RefFull(b))

RefScenarios ==
    /\ getWinner(ScenarioA) = [winner |-> "X", draw |-> FALSE]
    /\ getWinner(ScenarioB) = [winner |-> Null, draw |-> TRUE]

C11_GetWinner ==
    LET r == getWinner(board)
    IN  /\ DOMAIN r = {"winner", "draw"}
        /\ ~(RefHolds(board, "X") /\ RefHolds(board, "O")) => RefCases(board, r)
        /\ (RefHolds(board, "X") /\ RefHolds(board, "O")) =>
              r.winner \in {"X", "O"} /\ r.draw = FALSE
        /\ RefScenarios

\* updateStatus has run on the full board of scenario B and called it a draw.
C11_Witness ==
    /\ board = ScenarioB
    /\ pendingStatus = 0
    /\ over
    /\ message = "It's a draw."

\* The claim as worded: the three cases on every board whatever.
C11_EveryBoard == RefCases(board, getWinner(board)) /\ RefScenarios

(***************************************************************************)
(* C12.  isValidMove(b, i) is false for every i outside the integers 0..8  *)
(* and for every i whose cell holds a marker, and true for every i in      *)
(* 0..8 whose cell is empty, whoever is to move and whether or not the     *)
(* game is over.                                                           *)
(***************************************************************************)
RefValid(b, n) == n.half = FALSE /\ n.whole \in 0..8 /\ b[n.whole] \notin {"X", "O"}

C12_IsValidMove ==
    \A n \in Inputs :
        /\ isValidMove(board, n) \in BOOLEAN
        /\ isValidMove(board, n) <=> RefValid(board, n)

\* With O to move, a click on a cell holding a marker has been turned down
\* by isValidMove.
C12_Witness ==
    /\ current = "O"
    /\ ~over
    /\ logQ # <<>>
    /\ Last(logQ).action = "ERROR"
    /\ Last(logQ).message = "Invalid move - occupied"
    /\ board[Last(logQ).index.whole] # Null

(***************************************************************************)
(* C13.  An event in the audit log keeps its place and its before and      *)
(* after snapshots across every step that is not a clearAudit, whatever    *)
(* moves, resets and rejected clicks are handled after it was appended;    *)
(* the snapshots stored are the boards passed to logEvent, also when the   *)
(* board has changed between the call and the body.                        *)
(***************************************************************************)
C13_SnapshotsKept ==
    [][/\ ~ClearAudit =>
            /\ Len(audits') >= Len(audits)
            /\ \A k \in 1..Len(audits) :
                  /\ audits'[k].action = audits[k].action
                  /\ audits'[k].before = audits[k].before
                  /\ audits[k].action # "ERROR" => audits'[k].after = audits[k].after
       /\ LogEvent =>
            /\ Last(audits').before = Head(logQ).before
            /\ Head(logQ).action # "ERROR" => Last(audits').after = Head(logQ).after
    ]_vars

\* The oldest of three events is a move whose board has since been replaced
\* by a reset, and it still shows the move.
C13_Witness ==
    /\ Len(audits) = MaxLog
    /\ audits[1].action = "MOVE"
    /\ audits[2].action = "RESET"
    /\ Filled(audits[1].after) = Filled(audits[1].before) + 1
    /\ audits[1].after # board
    /\ audits[1].before # board

(***************************************************************************)
(* C14.  The audit log does not steer the game: a step that changes the    *)
(* log (logEvent's body, clearAudit) leaves board, current, over, the      *)
(* status message and the error message alone, clearAudit empties the      *)
(* log, and whatever the log holds a click is accepted iff its index is    *)
(* an integer 0..8, the game is not over and the cell is empty, and        *)
(* changes the board by that one marker or not at all.                     *)
(***************************************************************************)
C14_AuditInert ==
    [][/\ audits' # audits =>
            UNCHANGED <<board, current, over, message, errorMsg>>
       /\ Len(audits') < Len(audits) =>
            /\ audits' = <<>>
            /\ UNCHANGED <<logQ, pendingStatus, pendingClear>>
       /\ \A n \in AuditInputs : handleCellClick(n) =>
            /\ Accepted(n) <=> (RefValid(board, n) /\ ~over)
            /\ Accepted(n) => board' = [board EXCEPT ![n.whole] = current]
            /\ ~Accepted(n) => board' = board
            /\ current' = current /\ over' = over
    ]_vars

\* Every invocation has returned and the log is empty again (clearAudit has
\* run), with markers on the board and the error banner still up.
C14_Witness ==
    /\ audits = <<>>
    /\ InFlight = 0
    /\ Filled(board) >= 2
    /\ current = "O"
    /\ errorMsg = "Cell already occupied."

MoverIsNotNext ==
    [][\A n \in AuditInputs : (handleCellClick(n) /\ board' # board) =>
          Last(logQ').player # nextPlayer(board')]_vars

(***************************************************************************)
(* C16.  A click is classified in a fixed order.  An index that is not an  *)
(* integer 0..8 is rejected as out of range ("Invalid position."), also    *)
(* when the game is over.  An index 0..8 clicked while the game is over    *)
(* is rejected as game over, also when its cell is occupied.  A click is   *)
(* rejected as cell occupied exactly when its index is 0..8, the game is   *)
(* not over and the cell holds a marker.  Any other click is accepted.     *)
(***************************************************************************)
RefInRange(n) == n.half = FALSE /\ n.whole \in 0..8

C16_RejectionOrder ==
    [][Invoked /\ Last(logQ').action # "RESET" =>
        LET ev == Last(logQ')
            n  == ev.index
        IN  /\ n \in Inputs
            /\ ~RefInRange(n) =>
                  /\ ev.action = "ERROR"
                  /\ ev.message = "Out of range index"
                  /\ errorMsg' = "Invalid position."
            /\ (RefInRange(n) /\ over) =>
                  /\ ev.action = "ERROR"
                  /\ ev.message = "Move after game over"
                  /\ errorMsg' = "Game is already over. Please restart."
            /\ (RefInRange(n) /\ ~over /\ board[n.whole] # Null) =>
                  /\ ev.action = "ERROR"
                  /\ ev.message = "Invalid move - occupied"
                  /\ errorMsg' = "Cell already occupied."
            /\ (RefInRange(n) /\ ~over /\ board[n.whole] = Null) =>
                  ev.action = "MOVE"
            /\ ev.action = "ERROR" => ev.before = board /\ board' = board
    ]_vars

\* A click on an index past the board has just been rejected as out of
\* range in a game that is over.
C16_Witness ==
    /\ over
    /\ logQ # <<>>
    /\ Last(logQ).action = "ERROR"
    /\ Last(logQ).message = "Out of range index"
    /\ Last(logQ).index = Num(LastIndex + 1)
    /\ errorMsg = "Invalid position."

\* A click on an occupied cell of a game that is over has just been
\* rejected as game over.
C16_WitnessOver ==
    /\ over
    /\ logQ # <<>>
    /\ Last(logQ).action = "ERROR"
    /\ Last(logQ).message = "Move after game over"
    /\ board[Last(logQ).index.whole] # Null

(***************************************************************************)
(* C17.  Once every invocation has returned, the error banner is set iff   *)
(* the most recent handleCellClick or doReset was a rejected click, and    *)
(* then it is that rejection's message.  (While the log has not been       *)
(* cleared since, the most recent invocation is the one of the log's       *)
(* last event.)                                                            *)
(***************************************************************************)
RefBanner(m) ==
    CASE m = "Out of range index"      -> "Invalid position."
      [] m = "Move after game over"    -> "Game is already over. Please restart."
      [] m = "Invalid move - occupied" -> "Cell already occupied."

C17_BannerIsLastRejection ==
    (InFlight = 0 /\ audits # <<>>) =>
        LET ev == Last(audits)
        IN  IF ev.action = "ERROR"
            THEN errorMsg = RefBanner(ev.message)
            ELSE errorMsg = Null

(***************************************************************************)
(* C18.  In every reachable state in which no handler is part-way          *)
(* through, over is true iff the board has a completed line or all 9       *)
(* cells are filled, and while over is false the stored current player is  *)
(* X iff the number of filled cells is even.                               *)
(***************************************************************************)
C18_OverMatchesBoard ==
    InFlight = 0 =>
        /\ over <=> (RefHolds(board, "X") \/ RefHolds(board, "O") \/ RefFull(board))
        /\ ~over => (current = "X" <=> Filled(board) % 2 = 0)

\* Every invocation has returned, two of them clicks that ran interleaved
\* and both placed X; the game goes on with X to move.
C18_Witness ==
    /\ InFlight = 0
    /\ ~over
    /\ Count(board, "X") = 2
    /\ Count(board, "O") = 0
    /\ current = "X"

\* Every invocation has returned on a full board without a line.
C18_WitnessDraw ==
    /\ InFlight = 0
    /\ over
    /\ RefFull(board)
    /\ ~RefHolds(board, "X") /\ ~RefHolds(board, "O")

(***************************************************************************)
(* C19.  Whenever updateStatus turns the game into one won by p, p is the  *)
(* player whose marker was just placed (the player of the newest MOVE      *)
(* event, where the log still shows it), the stored current player is      *)
(* still p, and the X markers outnumber the O markers by 1 if p is X and   *)
(* by 0 if p is O.                                                         *)
(***************************************************************************)
C19_WinnerMovedLast ==
    [][(UpdateStatus /\ ~over /\ over' /\ message' \in {"Player X wins!", "Player O wins!"}) =>
        LET p == IF message' = "Player X wins!" THEN "X" ELSE "O"
        IN  /\ RefHolds(board', p)
            /\ current' = p
            /\ Count(board', "X") - Count(board', "O") = (IF p = "X" THEN 1 ELSE 0)
            /\ (audits # <<>> /\ Last(audits).action = "MOVE"
                    /\ Last(audits).after = board) => Last(audits).player = p
    ]_vars

\* The same without the count of markers.
WinnerIsCurrent ==
    [][(UpdateStatus /\ ~over /\ over' /\ message' \in {"Player X wins!", "Player O wins!"}) =>
        LET p == IF message' = "Player X wins!" THEN "X" ELSE "O"
        IN  /\ RefHolds(board', p)
            /\ current' = p
            /\ (audits # <<>> /\ Last(audits).action = "MOVE"
                    /\ Last(audits).after = board) => Last(audits).player = p
    ]_vars

(***************************************************************************)
(* C20.  The audit log is a consistent history.  Except by clearAudit,     *)
(* events are only added at the end, in the order in which their actions   *)
(* took effect on the game state.  The before of every MOVE or RESET       *)
(* event equals the after of the nearest earlier MOVE or RESET event of    *)
(* the log, and so does the before of every ERROR event; where the log     *)
(* shows no earlier one, the before of an event is the board as the last   *)
(* move or reset left it (the empty board when there was none): every      *)
(* event's before is the board its action found, a MOVE's or RESET's       *)
(* after is the board it left, and nothing else changes the board.         *)
(***************************************************************************)
Producers(q, k) == {j \in 1..(k - 1) : q[j].action \in {"MOVE", "RESET"}}

Nearest(q, k) == CHOOSE j \in Producers(q, k) : \A i \in Producers(q, k) : i <= j

ChainOK(q) ==
    \A k \in 1..Len(q) :
        Producers(q, k) # {} => q[k].before = q[Nearest(q, k)].after

C20_ConsistentHistory ==
    [][/\ ~ClearAudit =>
            /\ Len(audits') >= Len(audits)
            /\ SubSeq(audits', 1, Len(audits)) = audits
            /\ Len(AllEvents') >= Len(AllEvents)
            /\ SubSeq(AllEvents', 1, Len(AllEvents)) = AllEvents
       /\ Invoked =>
            /\ Last(logQ').before = board
            /\ IF Last(logQ').action = "ERROR"
               THEN board' = board
               ELSE Last(logQ').after = board'
       /\ ~Invoked => board' = board
       /\ ChainOK(AllEvents')
    ]_vars

\* A move, a rejected click and a reset in the log: the rejected click and
\* the reset both start from the board the move left.
C20_Witness ==
    /\ Len(audits) = 3
    /\ audits[1].action = "MOVE"
    /\ audits[2].action = "ERROR"
    /\ audits[3].action = "RESET"
    /\ audits[2].before = audits[1].after
    /\ audits[3].before = audits[1].after
    /\ audits[3].after = board

(***************************************************************************)
(* C21.  Every game terminates.  Without a reset, an accepted move fills   *)
(* one more cell and at most 9 moves are accepted; no game is declared     *)
(* won before its 5th accepted move; if clicks on empty cells keep being   *)
(* made while the game is in progress, the game is eventually Won or       *)
(* Drawn; and a full board does not stay in progress.                      *)
(***************************************************************************)
WinMessages == {"Player X wins!", "Player O wins!"}

AtMostNineMoves ==
    [][\A n \in Inputs : Accepted(n) =>
          /\ Filled(board) < 9
          /\ Filled(board') = Filled(board) + 1
    ]_vars

NoEarlyWin ==
    [][(UpdateStatus /\ over' /\ message' \in WinMessages) => Filled(board') >= 5]_vars

EveryGameEnds == <>(over /\ message \in WinMessages \cup {"It's a draw."})

FullBoardEnds == RefFull(board) ~> over

C21_GameTerminates ==
    /\ AtMostNineMoves
    /\ NoEarlyWin
    /\ EveryGameEnds
    /\ FullBoardEnds

\* The two liveness parts alone.
GameEndsAndFullBoardEnds == EveryGameEnds /\ FullBoardEnds

====
